---- MODULE Spec2Model ----
(***************************************************************************)
(* Movement world of isles (native/src/move.cpp): a Box2D world, the       *)
(* vector of unit bodies kept in step with a caller-owned array of unit    *)
(* records, the per-tick step, and the AABB / ray queries.                 *)
(*                                                                         *)
(* Geometry is one-dimensional and integral: a b2Vec2 is an integer        *)
(* coordinate, a circle of radius r at p covers [p - r, p + r], a static   *)
(* obstacle is a wall (radius 0) at one coordinate.  The rigid-body solver *)
(* is the external Box2D library; it is modelled by what the glue code     *)
(* observes of it: forces accumulate on awake dynamic bodies, a step with  *)
(* dt > 0 integrates velocity and position, the contact list pairs the     *)
(* fixtures of different bodies, and the broadphase reports fixtures to    *)
(* query callbacks in an order of its own.                                 *)
(***************************************************************************)
EXTENDS Integers, Sequences, FiniteSets

\* ---------------------------------------------------------------- bounds
MaxUnits == 2
MaxCell == 1
MaxObstacles == 1
MaxOrphans == 1
MaxCapacity == 2

UnitRadius == 1

\* Cell size of the grid: circles in different cells do not touch.
Grid == 2 * UnitRadius + 1

Positions == {Grid * k : k \in 0..MaxCell}
Forces == {0, Grid}
Radii == {UnitRadius}
CallerRadii == {UnitRadius, UnitRadius + 1}
UnitIndices == 0..(MaxUnits - 1)
Lengths == (0 - 1)..MaxUnits
Dts == {0, 1}

\* ------------------------------------------------------------- constants
MOVE_IN_CONTACT == 1
SizeofMoveUnit == 32
Strides == {SizeofMoveUnit}
ObstacleUserData == 0
InitStates == {3}
InitPositions == {0}

VARIABLES b2, obstacles, bodies, units, last, reply

vars == <<b2, obstacles, bodies, units, last, reply>>

\* ------------------------------------------------------------------ bits
BitOf(s, m) == (s \div m) % 2
ClearBit(s, m) == s - BitOf(s, m) * m
SetBit(s, m) == ClearBit(s, m) + m
OtherBits(s, m) == ClearBit(s, m)

Abs(x) == IF x < 0 THEN 0 - x ELSE x
Min(a, c) == IF a < c THEN a ELSE c
Max(a, c) == IF a < c THEN c ELSE a
Clamp(x, lo, hi) == Max(lo, Min(hi, x))

\* ------------------------------------------------------------- get_unit
\* Index of the record that units + i * unitSizeInBytes points at.
get_unit(unitSizeInBytes, i) == (i * unitSizeInBytes) \div SizeofMoveUnit

\* create_body without line 46: the fixture keeps Box2D's default user data.
create_body_unstamped(unit, i) ==
    [type |-> "dynamic", position |-> unit.position, velocity |-> 0,
     force |-> 0, awake |-> TRUE, radius |-> unit.radius, userData |-> 0]

\* ---------------------------------------------------------- create_body
create_body(unit, i) ==
    [type |-> "dynamic", position |-> unit.position, velocity |-> 0,
     force |-> 0, awake |-> TRUE, radius |-> unit.radius, userData |-> i]

\* b2Body::ApplyForceToCenter(force, wake)
ApplyForceToCenter(body, force, wake) ==
    IF body.type # "dynamic" THEN body
    ELSE LET woken == IF wake /\ ~body.awake
                      THEN [body EXCEPT !.awake = TRUE] ELSE body
         IN IF woken.awake
            THEN [woken EXCEPT !.force = woken.force + force] ELSE woken

\* Line 60 waking the body on every tick.
WakeFlagAlways(force) == TRUE

\* The wake argument of line 60.
WakeFlag(force) == force # 0

NoFail == 0 - 1
NoIndex == 0 - 1

\* What the last query wrote and returned; a query reads the world only, so
\* the reply is dropped by the next call.
Reply(op, lower, upper, n, buffer, begin, ret) ==
    [op |-> op, lower |-> lower, upper |-> upper, capacity |-> n,
     units |-> buffer, begin |-> begin, ret |-> ret]

NoReply == Reply("none", 0, 0, 0, <<>>, 0, 0)


\* Line 57 off by one: i + 1 >= bodies.size().
NeedsBodyOffByOne(i, handles) == i + 1 >= Len(handles)

\* Line 57: unit i has no body yet.
NeedsBody(i, handles) == i >= Len(handles)

\* The body re-made from the record on every tick.
ExistingBodyResync(body, unit) ==
    [body EXCEPT !.position = unit.position, !.radius = unit.radius]

\* Line 57 has no else branch: a body that exists is left as it is, whatever
\* the record's radius and position are now.
ExistingBody(body, unit) == body

\* -------------------------------------------------- move_step, lines 55-61
\* The reconcile / apply-force loop from index i on.  w is the world so
\* far: the Box2D body list, the vector of handles into it, and whether
\* bodies.push_back threw std::bad_alloc.  failAt is the index whose
\* push_back throws (NoFail: none): create_body has then already put the
\* body into the Box2D world, the handle is lost, and the exception leaves
\* move_step at once.
RECURSIVE Reconcile(_, _, _, _, _, _)
Reconcile(w, us, unitsLength, unitSizeInBytes, failAt, i) ==
    IF i >= unitsLength THEN w
    ELSE LET unit == us[get_unit(unitSizeInBytes, i)]
             need == NeedsBody(i, w.bodies)
         IN IF need /\ failAt = i
            THEN [w EXCEPT !.b2 = Append(w.b2, create_body(unit, i)),
                           !.threw = TRUE]
            ELSE LET w1 == IF need
                           THEN [w EXCEPT
                                   !.b2 = Append(w.b2, create_body(unit, i)),
                                   !.bodies = Append(w.bodies, Len(w.b2) + 1)]
                           ELSE [w EXCEPT !.b2[w.bodies[i + 1]] =
                                           ExistingBody(@, unit)]
                     h == w1.bodies[i + 1]
                     w2 == [w1 EXCEPT !.b2[h] =
                              ApplyForceToCenter(@, unit.force,
                                                 WakeFlag(unit.force))]
                 IN Reconcile(w2, us, unitsLength, unitSizeInBytes,
                              failAt, i + 1)

\* -------------------------------------------------------- b2World::Step
\* One body over a step of dt: nothing moves unless dt > 0 and the body is
\* dynamic and awake; unit mass (density 1 / (pi r^2)); a body that ends the
\* step at rest falls asleep; forces are cleared on return.
StepBody(body, dt) ==
    IF body.type = "dynamic" /\ body.awake /\ dt > 0
    THEN LET v == Clamp(body.velocity + dt * body.force, 0, Grid)
             x == Clamp(body.position + dt * v, 0, Grid * MaxCell)
         IN [body EXCEPT !.velocity = v, !.position = x, !.force = 0,
                         !.awake = (v # 0)]
    ELSE [body EXCEPT !.force = 0]

b2Step(world, dt) == [h \in 1..Len(world) |-> StepBody(world[h], dt)]

\* Manifold of two fixtures: circles (and a wall of radius 0) overlap.
Touching(fa, fb) == Abs(fa.position - fb.position) <= fa.radius + fb.radius

\* The static body move_add_obstacle registers at p: one fixture whose user
\* data nobody stamps.
Obstacle(p) ==
    [type |-> "static", position |-> p, velocity |-> 0, force |-> 0,
     awake |-> FALSE, radius |-> 0, userData |-> ObstacleUserData]

\* b2World::GetContactList after the step: one contact for every pair of
\* fixtures of different bodies of which one is dynamic; candidate pairs
\* that do not touch are listed too.  No contact listener disables one.
Contact(fa, fb) ==
    [fixtureA |-> fa, fixtureB |-> fb, enabled |-> TRUE,
     touching |-> Touching(fa, fb)]

ContactList(world, obs) ==
    {Contact(world[q[1]], world[q[2]]) :
        q \in {r \in (1..Len(world)) \X (1..Len(world)) : r[1] < r[2]}}
    \cup {Contact(world[h], Obstacle(p)) : h \in 1..Len(world), p \in obs}

\* Line 70 written as an assignment: state = 0.
WriteBackStateReset(state) == 0

\* -------------------------------------------------- move_step, lines 65-71
WriteBackState(state) == ClearBit(state, MOVE_IN_CONTACT)

RECURSIVE WriteBack(_, _, _, _, _, _)
WriteBack(us, world, handles, unitsLength, unitSizeInBytes, i) ==
    IF i >= unitsLength THEN us
    ELSE LET u == get_unit(unitSizeInBytes, i)
             body == world[handles[i + 1]]
             us1 == [us EXCEPT ![u].position = body.position,
                               ![u].velocity = body.velocity,
                               ![u].state = WriteBackState(@)]
         IN WriteBack(us1, world, handles, unitsLength, unitSizeInBytes, i + 1)

\* -------------------------------------------------- move_step, lines 73-83
\* Contacts the walk acts on.
Reported(contact) == contact.enabled /\ contact.touching

\* Records the walk ORs MOVE_IN_CONTACT into; the OR makes the order of the
\* list immaterial.
ContactUnits(contacts, unitSizeInBytes) ==
    UNION {{get_unit(unitSizeInBytes, c.fixtureA.userData),
            get_unit(unitSizeInBytes, c.fixtureB.userData)} :
             c \in {d \in contacts : Reported(d)}}

ReportContacts(us, contacts, unitSizeInBytes) ==
    LET hit == ContactUnits(contacts, unitSizeInBytes)
    IN [u \in DOMAIN us |->
          IF u \in hit
          THEN [us[u] EXCEPT !.state = SetBit(@, MOVE_IN_CONTACT)]
          ELSE us[u]]

\* The write-back fused into the first loop: the units reconciled before the
\* throw are already written.
UnitsAfterThrowFused(us, w, unitsLength, unitSizeInBytes) ==
    WriteBack(us, w.b2, w.bodies, Len(w.bodies), unitSizeInBytes, 0)

\* Unit records a call leaves behind when push_back throws in the first
\* loop: no write to a record precedes line 68.
UnitsAfterThrow(us, w, unitsLength, unitSizeInBytes) == us

\* ------------------------------------------------------------ move_step
\* Bodies of the Box2D world whose handle push_back lost.
Orphans == Len(b2) - Len(bodies)

InvalidArgument(unitsLength, unitSizeInBytes, dt) ==
    dt <= 0 \/ unitsLength < 0 \/ unitSizeInBytes < SizeofMoveUnit

Call(op, unitsLength, invalid, threw) ==
    [op |-> op, length |-> unitsLength, invalid |-> invalid, threw |-> threw]

\* The list cut down to the units of the call.
KeptBodiesTrimmed(handles, unitsLength) ==
    SubSeq(handles, 1, Min(Len(handles), Max(0, unitsLength)))

\* Lines 50-84 hold no erase, pop_back, clear or DestroyBody: the list a call
\* leaves is the list its first loop built.
KeptBodies(handles, unitsLength) == handles

move_step(unitsLength, unitSizeInBytes, dt, failAt) ==
    LET w == Reconcile([b2 |-> b2, bodies |-> bodies, threw |-> FALSE],
                       units, unitsLength, unitSizeInBytes, failAt, 0)
    IN /\ bodies' = KeptBodies(w.bodies, unitsLength)
       /\ IF w.threw
          THEN /\ b2' = w.b2
               /\ units' = UnitsAfterThrow(units, w, unitsLength,
                                           unitSizeInBytes)
          ELSE LET stepped == b2Step(w.b2, dt)
                   written == WriteBack(units, stepped, w.bodies,
                                        unitsLength, unitSizeInBytes, 0)
               IN /\ b2' = stepped
                  /\ units' = ReportContacts(written,
                                             ContactList(stepped, obstacles),
                                             unitSizeInBytes)
       /\ last' = Call("move_step", unitsLength,
                       InvalidArgument(unitsLength, unitSizeInBytes, dt),
                       w.threw)
       /\ reply' = NoReply
       /\ UNCHANGED obstacles

\* A call that returns.
StepReturns ==
    \E n \in Lengths, st \in Strides, dt \in Dts : move_step(n, st, dt, NoFail)

\* A call in which the push_back of index k throws.
StepThrows ==
    \E n \in Lengths, st \in Strides, dt \in Dts, k \in UnitIndices :
        /\ Len(bodies) <= k
        /\ k < n
        /\ Orphans < MaxOrphans
        /\ move_step(n, st, dt, k)

\* ---------------------------------------------------- move_add_obstacle
\* Obstacles are kept by the coordinate of their wall.
move_add_obstacle(p) ==
    /\ Cardinality(obstacles) < MaxObstacles
    /\ p \notin obstacles
    /\ obstacles' = obstacles \cup {p}
    /\ last' = Call("move_add_obstacle", 0, FALSE, FALSE)
    /\ reply' = NoReply
    /\ UNCHANGED <<b2, bodies, units>>

\* ----------------------------------------------------------- the caller
\* The caller owns the array and writes a unit's force between steps.
caller_set_force(i, f) ==
    /\ units[i].force # f
    /\ units' = [units EXCEPT ![i].force = f]
    /\ last' = Call("caller", 0, FALSE, FALSE)
    /\ reply' = NoReply
    /\ UNCHANGED <<b2, obstacles, bodies>>

\* The caller moves a record whose body exists already.
caller_set_position(i, p) ==
    /\ i < Len(bodies)
    /\ units[i].position # p
    /\ units' = [units EXCEPT ![i].position = p]
    /\ last' = Call("caller", 0, FALSE, FALSE)
    /\ reply' = NoReply
    /\ UNCHANGED <<b2, obstacles, bodies>>

\* The caller resizes a record whose body exists already.
caller_set_radius(i, r) ==
    /\ i < Len(bodies)
    /\ units[i].radius # r
    /\ units' = [units EXCEPT ![i].radius = r]
    /\ last' = Call("caller", 0, FALSE, FALSE)
    /\ reply' = NoReply
    /\ UNCHANGED <<b2, obstacles, bodies>>

\* ------------------------------------------------------------- queries
\* Fixtures of the world: one per body create_body made, one per obstacle.
FixtureIds(world, obs) ==
    {<<"body", h>> : h \in 1..Len(world)} \cup {<<"obstacle", p>> : p \in obs}

FixtureOf(world, id) == IF id[1] = "body" THEN world[id[2]] ELSE Obstacle(id[2])

\* The orders in which the broadphase tree may report the fixtures of S.
Orderings(S) ==
    {f \in [1..Cardinality(S) -> S] : \A i, j \in DOMAIN f : f[i] = f[j] => i = j}

\* b2TestOverlap of the query box and the fixture's box.
Overlaps(f, lower, upper) ==
    /\ f.position - f.radius <= upper
    /\ lower <= f.position + f.radius

Overlapping(world, obs, lower, upper) ==
    {id \in FixtureIds(world, obs) : Overlaps(FixtureOf(world, id), lower, upper)}

\* MoveQueryCallback::ReportFixture on the callback cb = [units, begin, end]:
\* begin and end are offsets into the caller's buffer units.
QueryFull(cb) == cb.begin = cb.end

QueryReportFixture(cb, fixture) ==
    [cb EXCEPT !.units[cb.begin + 1] = fixture.userData, !.begin = cb.begin + 1]

\* b2World::QueryAABB: the fixtures are reported in order until the callback
\* returns false.
RECURSIVE QueryAABB(_, _, _, _)
QueryAABB(cb, world, order, i) ==
    IF i > Len(order) \/ QueryFull(cb) THEN cb
    ELSE QueryAABB(QueryReportFixture(cb, FixtureOf(world, order[i])),
                   world, order, i + 1)

\* The return statement of move_query_aabb.
QueryReturn(cb) == cb.end - cb.begin

move_query_aabb(lower, upper, unitsLength, order) ==
    LET cb == QueryAABB([units |-> [j \in 1..unitsLength |-> NoIndex],
                         begin |-> 0, end |-> unitsLength],
                        b2, order, 1)
    IN /\ reply' = Reply("move_query_aabb", lower, upper, unitsLength,
                         cb.units, cb.begin, QueryReturn(cb))
       /\ last' = Call("move_query_aabb", unitsLength, FALSE, FALSE)
       /\ UNCHANGED <<b2, obstacles, bodies, units>>

\* Distance along the ray from a to b at which it enters the fixture, or
\* NoIndex when it does not: a ray that starts inside a circle, or has no
\* length, misses it.  The hit fraction is this distance over |b - a|.
Direction(a, b) == IF b > a THEN 1 ELSE 0 - 1

RayEnters(f, a, b) == (f.position - f.radius * Direction(a, b) - a) * Direction(a, b)

RayHits(f, a, b, maxDistance) ==
    /\ a # b
    /\ 0 <= RayEnters(f, a, b)
    /\ RayEnters(f, a, b) <= maxDistance

\* ReportFixture without line 119.
RayReportFixtureSilent(cb, fixture) == [cb EXCEPT !.unit = fixture.userData]

\* MoveRayCastCallback::ReportFixture on cb = [unit, result]; its return
\* value follows.
RayReportFixture(cb, fixture) ==
    [cb EXCEPT !.unit = fixture.userData, !.result = 1]

RayReturnValue(distance) == 0

\* b2World::RayCast: the fixtures whose box the segment's box overlaps are
\* visited in tree order and those the ray hits are reported; a return value
\* of 0 ends the cast, a positive one clips the ray to it.
RECURSIVE RayCast(_, _, _, _, _, _, _)
RayCast(cb, world, order, a, b, maxDistance, i) ==
    IF i > Len(order) THEN cb
    ELSE LET f == FixtureOf(world, order[i])
         IN IF RayHits(f, a, b, maxDistance)
            THEN LET value == RayReturnValue(RayEnters(f, a, b))
                     cb1 == RayReportFixture(cb, f)
                 IN IF value = 0 THEN cb1
                    ELSE RayCast(cb1, world, order, a, b, value, i + 1)
            ELSE RayCast(cb, world, order, a, b, maxDistance, i + 1)

move_raycast(a, b, unit, order) ==
    LET cb == RayCast([unit |-> unit, result |-> 0], b2, order, a, b,
                      Abs(b - a), 1)
    IN /\ reply' = Reply("move_raycast", a, b, unit, <<cb.unit>>, 0, cb.result)
       /\ last' = Call("move_raycast", 0, FALSE, FALSE)
       /\ UNCHANGED <<b2, obstacles, bodies, units>>

RayPoints == {Grid * k : k \in (0 - 1)..(MaxCell + 1)}

Init ==
    /\ b2 = <<>>
    /\ obstacles = {}
    /\ bodies = <<>>
    /\ units \in [UnitIndices -> [radius : Radii, position : InitPositions,
                                  velocity : {0}, force : {0},
                                  state : InitStates]]
    /\ last = Call("move_new", 0, FALSE, FALSE)
    /\ reply = NoReply

Next ==
    \/ StepReturns
    \/ \E p \in Positions : move_add_obstacle(p)
    \/ \E i \in UnitIndices, f \in Forces : caller_set_force(i, f)

Spec == Init /\ [][Next]_vars

\* Calls in which bodies.push_back may throw; no obstacles.
NextAlloc ==
    \/ StepReturns
    \/ StepThrows
    \/ \E i \in UnitIndices, f \in Forces : caller_set_force(i, f)

SpecAlloc == Init /\ [][NextAlloc]_vars

\* A caller that gives each unit a force once and then rewrites the radius
\* and position of records between steps; no obstacles.
InitCaller ==
    /\ b2 = <<>>
    /\ obstacles = {}
    /\ bodies = <<>>
    /\ units \in [UnitIndices -> [radius : Radii, position : InitPositions,
                                  velocity : {0}, force : Forces,
                                  state : InitStates]]
    /\ last = Call("move_new", 0, FALSE, FALSE)
    /\ reply = NoReply

NextCaller ==
    \/ StepReturns
    \/ \E i \in UnitIndices, p \in Positions : caller_set_position(i, p)
    \/ \E i \in UnitIndices, r \in CallerRadii : caller_set_radius(i, r)

SpecCaller == InitCaller /\ [][NextCaller]_vars

\* Queries on worlds whose units the caller placed anywhere and left at rest.
InitQuery ==
    /\ b2 = <<>>
    /\ obstacles = {}
    /\ bodies = <<>>
    /\ units \in [UnitIndices -> [radius : Radii, position : Positions,
                                  velocity : {0}, force : {0},
                                  state : InitStates]]
    /\ last = Call("move_new", 0, FALSE, FALSE)
    /\ reply = NoReply

QueryAny ==
    \E lower \in Positions, upper \in Positions, n \in 0..MaxCapacity :
        /\ reply = NoReply
        /\ lower <= upper
        /\ \E order \in Orderings(Overlapping(b2, obstacles, lower, upper)) :
              move_query_aabb(lower, upper, n, order)

RayAny ==
    \E a \in RayPoints, b \in RayPoints :
        /\ reply = NoReply
        /\ \E order \in Orderings(Overlapping(b2, obstacles,
                                                Min(a, b), Max(a, b))) :
              move_raycast(a, b, NoIndex, order)

NextQuery ==
    \/ \E n \in 0..MaxUnits : move_step(n, SizeofMoveUnit, 1, NoFail)
    \/ \E p \in Positions : move_add_obstacle(p)
    \/ QueryAny
    \/ RayAny

SpecQuery == InitQuery /\ [][NextQuery]_vars

\* ================================================================ claims
InContact(i) == BitOf(units[i].state, MOVE_IN_CONTACT) = 1

\* The last call was a move_step that returned.
StepReturned == last.op = "move_step" /\ ~last.threw

\* ... with arguments the contract accepts.
StepDone == StepReturned /\ ~last.invalid

\* Indices of the units the last move_step was given.
Stepped == {i \in UnitIndices : i < last.length}

BodyOf(i) == b2[bodies[i + 1]]

\* Enabled and touching contacts of the world.
Contacts == {c \in ContactList(b2, obstacles) : Reported(c)}

Involves(c, f) == c.fixtureA = f \/ c.fixtureB = f

Other(c, f) == IF c.fixtureA = f THEN c.fixtureB ELSE c.fixtureA

TakesPart(i) == \E c \in Contacts : Involves(c, BodyOf(i))

\* C1: after a move_step that returned, every i below its length has a body
\* at position i of the body list, and the fixture of the body at position i
\* carries user data i (for any sequence of lengths, the non-decreasing ones
\* among them).
C1_BodyIndex ==
    /\ \A h \in 1..Len(bodies) : b2[bodies[h]].userData = h - 1
    /\ StepReturned => \A i \in Stepped : i < Len(bodies)

C1_Witness ==
    /\ StepReturned
    /\ last.length = MaxUnits
    /\ Len(bodies) = MaxUnits
    /\ BodyOf(0).position # BodyOf(MaxUnits - 1).position

\* C2: after a valid move_step, a unit below its length whose body takes
\* part in no enabled and touching contact has IN_CONTACT clear.
C2_Fresh ==
    StepDone => \A i \in Stepped : ~TakesPart(i) => ~InContact(i)

\* C3: after a valid move_step, a unit a below its length has
\* IN_CONTACT set exactly if some other unit b is in an enabled and touching
\* contact with it and has IN_CONTACT set too.
C3_Symmetry ==
    StepDone =>
        \A a \in Stepped :
            InContact(a) <=>
                \E b \in 0..(Len(bodies) - 1) :
                    /\ b # a
                    /\ \E c \in Contacts :
                          Involves(c, BodyOf(a)) /\ Involves(c, BodyOf(b))
                    /\ InContact(b)

\* C4: after a valid move_step, a unit below its length all of whose
\* touching contacts are with obstacles has IN_CONTACT clear.
C4_ObstacleSilent ==
    StepDone =>
        \A i \in Stepped :
            (\A c \in Contacts :
                Involves(c, BodyOf(i)) => Other(c, BodyOf(i)).type = "static")
            => ~InContact(i)

\* C5: move_query_aabb returns the number of entries it wrote, which is the
\* smaller of the capacity and the number of fixtures overlapping the box.
C5_QueryCount ==
    reply.op = "move_query_aabb" =>
        /\ reply.ret = reply.begin
        /\ reply.ret = Min(reply.capacity,
                           Cardinality(Overlapping(b2, obstacles,
                                                   reply.lower, reply.upper)))

\* C6: move_query_aabb writes at most capacity entries, and every entry it
\* writes is the index of a unit whose own fixture overlaps the box.
C6_QuerySubset ==
    reply.op = "move_query_aabb" =>
        /\ reply.begin <= reply.capacity
        /\ \A j \in 1..reply.begin :
              \E i \in 0..(Len(bodies) - 1) :
                  /\ reply.units[j] = i
                  /\ Overlaps(BodyOf(i), reply.lower, reply.upper)

\* Fixtures a ray from a to b hits.
HitBy(a, b) ==
    {id \in FixtureIds(b2, obstacles) :
        RayHits(FixtureOf(b2, id), a, b, Abs(b - a))}

Nearest(a, b) ==
    {id \in HitBy(a, b) :
        \A other \in HitBy(a, b) :
            RayEnters(FixtureOf(b2, id), a, b)
                <= RayEnters(FixtureOf(b2, other), a, b)}

\* C7: when the ray hits several fixtures, move_raycast returns 1 and writes
\* the index carried by a fixture of smallest hit fraction.
C7_RayNearest ==
    (reply.op = "move_raycast"
        /\ Cardinality(HitBy(reply.lower, reply.upper)) > 1) =>
        /\ reply.ret = 1
        /\ \E id \in Nearest(reply.lower, reply.upper) :
              reply.units[1] = FixtureOf(b2, id).userData

\* C8: a move_step leaves every bit of every unit's state other than
\* IN_CONTACT as it was.
C8_OtherBits ==
    [][last'.op = "move_step" =>
         \A i \in UnitIndices :
             OtherBits(units'[i].state, MOVE_IN_CONTACT)
                 = OtherBits(units[i].state, MOVE_IN_CONTACT)]_vars

C8_Witness ==
    /\ StepReturned
    /\ \E i \in Stepped :
          /\ ~InContact(i)
          /\ OtherBits(units[i].state, MOVE_IN_CONTACT) # 0

\* C9: a move_step with an invalid argument changes neither the Box2D world,
\* nor the body list, nor a unit record.
C9_InvalidRejected ==
    [][(last'.op = "move_step" /\ last'.invalid) =>
         (b2' = b2 /\ bodies' = bodies /\ units' = units)]_vars

\* C10: a move_step that fails leaves every unit record as it was.
C10_AllOrNothing ==
    [][(last'.op = "move_step" /\ last'.threw) => units' = units]_vars

C10_Witness ==
    /\ last.op = "move_step"
    /\ last.threw
    /\ Len(bodies) >= 1
    /\ \E h \in 1..Len(bodies) : b2[bodies[h]].force # 0

\* C11: a move_step of length L that returns leaves at least L bodies in the
\* list and appends exactly max(0, L - previous count) of them: the old
\* entries stay, and the new ones are the bodies just added to the world, in
\* increasing order, the one at position i stamped i.
C11_LazyAppend ==
    [][(last'.op = "move_step" /\ ~last'.threw) =>
         /\ Len(bodies') >= last'.length
         /\ Len(bodies') = Len(bodies) + Max(0, last'.length - Len(bodies))
         /\ \A h \in 1..Len(bodies) : bodies'[h] = bodies[h]
         /\ \A h \in (Len(bodies) + 1)..Len(bodies') :
               /\ bodies'[h] = Len(b2) + (h - Len(bodies))
               /\ b2'[bodies'[h]].userData = h - 1]_vars

C11_Witness ==
    /\ StepReturned
    /\ last.length = MaxUnits
    /\ Len(bodies) = MaxUnits
    /\ bodies[MaxUnits] # MaxUnits

\* C12: the record's radius and position are read only when the body is
\* made. In a later move_step the body of a unit keeps its radius and moves
\* from its own position under the record's force, whatever radius and
\* position the caller has written meanwhile; the record's position is
\* overwritten with the body's and its radius is left as the caller wrote it.
C12_ReadAtCreation ==
    [][(last'.op = "move_step" /\ ~last'.threw) =>
         \A i \in UnitIndices :
            i < Len(bodies) =>
               LET old == b2[bodies[i + 1]]
                   new == b2'[bodies'[i + 1]]
                   pushed == IF i < last'.length
                             THEN ApplyForceToCenter(old, units[i].force,
                                                     WakeFlag(units[i].force))
                             ELSE old
               IN /\ new.radius = old.radius
                  /\ new.position \in {StepBody(pushed, dt).position : dt \in Dts}
                  /\ i < last'.length =>
                        /\ units'[i].position = new.position
                        /\ units'[i].radius = units[i].radius]_vars

\* A step has run on a record whose radius the caller changed after its body
\* was made, and has put the record back where the body is.
C12_Witness ==
    /\ StepReturned
    /\ \E i \in Stepped :
          /\ units[i].radius # BodyOf(i).radius
          /\ units[i].position = BodyOf(i).position
          /\ BodyOf(i).position # 0

\* C13: in a move_step every unit below the length has its force applied to
\* its body once, before the world is stepped, and the body is woken only if
\* the force is not zero. A call that throws stops before the integration,
\* so the body carries exactly its old force plus the record's; a call that
\* returns integrates the body so pushed. A sleeping body whose record has
\* zero force stays asleep where it was.
C13_ForceOnce ==
    [][last'.op = "move_step" =>
         \A i \in UnitIndices :
            (i < last'.length /\ i < Len(bodies')) =>
               LET old == IF i < Len(bodies) THEN b2[bodies[i + 1]]
                          ELSE create_body(units[i], i)
                   new == b2'[bodies'[i + 1]]
                   f == units[i].force
                   pushed == ApplyForceToCenter(old, f, f # 0)
               IN /\ last'.threw => new = pushed
                  /\ ~last'.threw => new \in {StepBody(pushed, dt) : dt \in Dts}
                  /\ (~old.awake /\ f = 0) =>
                        ~new.awake /\ new.position = old.position]_vars

\* A call stopped by a throw after its first loop went over a sleeping body
\* whose record has zero force.
C13_Witness ==
    /\ last.op = "move_step"
    /\ last.threw
    /\ \E i \in Stepped :
          /\ i < Len(bodies)
          /\ ~BodyOf(i).awake
          /\ units[i].force = 0

\* C14: a move_step with length 0 and valid arguments makes no body and
\* writes no unit record.
C14_EmptyStep ==
    [][(last'.op = "move_step" /\ ~last'.invalid /\ ~last'.threw
        /\ last'.length = 0) =>
         /\ bodies' = bodies
         /\ Len(b2') = Len(b2)
         /\ units' = units]_vars

\* C15: no move_step, move_query_aabb or move_raycast destroys or replaces
\* a body: the list only grows at its end, entry i keeps naming the same body
\* of the world, and that body keeps its kind, radius and index stamp.
C15_BodiesKept ==
    [][/\ Len(bodies') >= Len(bodies)
       /\ \A h \in 1..Len(bodies) : bodies'[h] = bodies[h]
       /\ Len(b2') >= Len(b2)
       /\ \A h \in 1..Len(b2) :
             /\ b2'[h].type = b2[h].type
             /\ b2'[h].radius = b2[h].radius
             /\ b2'[h].userData = b2[h].userData]_vars

\* A move_step given fewer units than there are bodies has run.
C15_Witness ==
    /\ StepReturned
    /\ last.length < Len(bodies)
    /\ Len(bodies) = MaxUnits
    /\ \A i \in UnitIndices : BodyOf(i).userData = i

\* C16: a move_step in which making a body fails discards what it had
\* reconciled: the list is as long as before and no body carries a force the
\* call applied.
C16_CreationRollback ==
    [][(last'.op = "move_step" /\ last'.threw) =>
         /\ Len(bodies') = Len(bodies)
         /\ \A h \in 1..Len(b2) : b2'[h].force = b2[h].force]_vars

\* C17: a move_step with valid arguments leaves every record at or above its
\* length as it was; in particular the contact walk sets no IN_CONTACT there.
C17_WithinLength ==
    [][(last'.op = "move_step" /\ ~last'.invalid /\ ~last'.threw) =>
         \A i \in UnitIndices :
            i >= last'.length => units'[i] = units[i]]_vars

\* Fixtures that have a point in common with the segment from a to b.
Intersecting(a, b) == Overlapping(b2, obstacles, Min(a, b), Max(a, b))

\* C18 as stated: move_raycast returns 1 if and only if at least one fixture
\* intersects the segment from a to b.
C18_RayIntersects ==
    reply.op = "move_raycast" =>
        (reply.ret = 1 <=> Intersecting(reply.lower, reply.upper) # {})

\* C18: move_raycast returns 1 if and only if the ray from a to b hits at
\* least one fixture, that is, enters it at a fraction in [0, 1]; a fixture
\* that holds the point a is not hit, and nothing is when a = b. When it
\* returns 0 the caller's index is as it was passed. The call changes no
\* body, no obstacle, no list entry and no unit record.
C18_RayHit ==
    [][last'.op = "move_raycast" =>
         /\ (reply'.ret = 1 <=> HitBy(reply'.lower, reply'.upper) # {})
         /\ reply'.ret \in {0, 1}
         /\ reply'.ret = 0 => reply'.units[1] = reply'.capacity
         /\ b2' = b2
         /\ obstacles' = obstacles
         /\ bodies' = bodies
         /\ units' = units]_vars

\* A ray that starts inside a fixture and hits nothing has been cast.
C18_Witness ==
    /\ reply.op = "move_raycast"
    /\ reply.lower # reply.upper
    /\ reply.ret = 0
    /\ reply.units[1] = NoIndex
    /\ Intersecting(reply.lower, reply.upper) # {}
    /\ HitBy(reply.lower, reply.upper) = {}

====
